---------------------------- MODULE Spec2Model ----------------------------
(***************************************************************************)
(* magicmix: the default sorter (internal/strategy/default.go), the        *)
(* context options of the strategy package and the Camelot key parser of   *)
(* the track package.                                                      *)
(*                                                                         *)
(* float64 values are fixed-point integers in units of 1/Scale.  Every     *)
(* quantity the sorter computes from integer energies, BPMs given in       *)
(* tenths, and at most 8 (or exactly 10) tracks is a multiple of 1/Scale,  *)
(* so the arithmetic below is exact.  1/Scale exceeds the 1e-6 of          *)
(* closeFloat, so two scores are "close" exactly when they are equal.      *)
(***************************************************************************)
EXTENDS Integers, Sequences, FiniteSets, Bags, TLC

\* ------------------------------------------------------------- bounds
\* Longest input list drawn by Init.
MaxTracks == 3

\* Longest key label handed to ParseKey.
MaxKeyLen == 4

\* The longest file handed to csvio.Load, in records
MaxRows == 3

\* The largest steps-since counter handed to categoryOrder
MaxSteps == 6

\* The largest track count handed to idealCycleLength
MaxTotal == 120

\* How often advance accepts the same track in a row
MaxRun == 101

\* The most candidates handed to the candidate loop of chooseNextIndex
MaxCands == 3

\* The largest BPM delta, in tenths of a beat, handed to bpmTransitionCost
MaxBpmDelta == 60

\* 2^5 * 3^3 * 5^3 * 7 = 756000 units per 1.0
Scale == 32 * 27 * 125 * 7

\* ---------------------------------------------------------- constants
cycleMinTracks == 6
cycleMaxTracks == 10
cycleIdealTracks == 8
keyWeight == 12
\* bpmWeight = 0.8, in tenths
bpmWeightTenths == 8
energyWeight == 2
varietyStepThreshold == 2
varietyStepWeight == 3
varietyLetterThreshold == 5
\* varietyLetterWeight = 2.5, varietyEnergyReward = 1.5, varietyEnergyPenalty = 0.6, in tenths
varietyLetterWeightTenths == 25
varietyEnergyThreshold == 5
varietyEnergyRewardTenths == 15
varietyEnergyPenaltyTenths == 6
energyDropThreshold == 10
\* startSelectionTolerance = 1.0
startSelectionTolerance == Scale

\* ------------------------------------------------------------ helpers
Abs(x) == IF x < 0 THEN -x ELSE x

Min2(a, b) == IF a < b THEN a ELSE b

Max2(a, b) == IF a > b THEN a ELSE b

maxInt(a, b) == IF a > b THEN a ELSE b

Range(s) == {s[i] : i \in 1..Len(s)}

RECURSIVE SeqToBag(_)
SeqToBag(s) ==
    IF s = <<>> THEN EmptyBag ELSE SetToBag({Head(s)}) (+) SeqToBag(Tail(s))

\* sort.Ints / sort.Float64s: ascending insertion of each element
RECURSIVE Insert(_, _)
Insert(x, s) ==
    IF s = <<>> THEN <<x>>
    ELSE IF x <= Head(s) THEN <<x>> \o s
    ELSE <<Head(s)>> \o Insert(x, Tail(s))

RECURSIVE SortInts(_)
SortInts(s) == IF s = <<>> THEN <<>> ELSE Insert(Head(s), SortInts(Tail(s)))

\* math.Round(a/b) for a >= 0, b > 0: half away from zero
RoundDiv(a, b) == (2 * a + b) \div (2 * b)

\* ------------------------------------------------------- track package
ModeA == "A"
ModeB == "B"

Key(n, m) == [Number |-> n, Mode |-> m]

\* The zero Key{} and the error values ParseKey returns
ZeroKey == [Number |-> 0, Mode |-> ""]

\* A string is a sequence of one-character strings.
Digits == <<"0", "1", "2", "3", "4", "5", "6", "7", "8", "9">>

IsDigit(c) == \E d \in 1..10 : Digits[d] = c

DigitValue(c) == (CHOOSE d \in 1..10 : Digits[d] = c) - 1

IsSpace(c) == c \in {" ", "\t", "\n", "\r"}

\* strings.ToUpper on the letters of the model's alphabet
UpperChar(c) ==
    CASE c = "a" -> "A"
      [] c = "b" -> "B"
      [] c = "x" -> "X"
      [] OTHER -> c

ToUpper(str) == [i \in 1..Len(str) |-> UpperChar(str[i])]

RECURSIVE TrimLeft(_)
TrimLeft(str) ==
    IF str # <<>> /\ IsSpace(Head(str)) THEN TrimLeft(Tail(str)) ELSE str

RECURSIVE TrimRight(_)
TrimRight(str) ==
    IF str # <<>> /\ IsSpace(str[Len(str)])
    THEN TrimRight(SubSeq(str, 1, Len(str) - 1))
    ELSE str

TrimSpace(str) == TrimRight(TrimLeft(str))

RECURSIVE DecimalValue(_, _)
DecimalValue(str, acc) ==
    IF str = <<>> THEN acc
    ELSE DecimalValue(Tail(str), acc * 10 + DigitValue(Head(str)))

\* strconv.Atoi: an optional sign, then one or more decimal digits
Atoi(str) ==
    LET signed == str # <<>> /\ Head(str) \in {"+", "-"}
        digits == IF signed THEN Tail(str) ELSE str
    IN  IF digits = <<>> \/ \E i \in 1..Len(digits) : ~IsDigit(digits[i])
        THEN [value |-> 0, ok |-> FALSE]
        ELSE [value |-> IF signed /\ Head(str) = "-"
                        THEN -DecimalValue(digits, 0)
                        ELSE DecimalValue(digits, 0),
              ok |-> TRUE]

ParseKey(input) ==
    LET cleaned == TrimSpace(ToUpper(input))
    IN  IF Len(cleaned) < 2 \/ Len(cleaned) > 3
        THEN [key |-> ZeroKey, err |-> "invalid key format"]
        ELSE LET mode == cleaned[Len(cleaned)]
                 numberPart == SubSeq(cleaned, 1, Len(cleaned) - 1)
                 number == Atoi(numberPart)
             IN  IF mode # ModeA /\ mode # ModeB
                 THEN [key |-> ZeroKey, err |-> "invalid key mode"]
                 ELSE IF ~number.ok
                 THEN [key |-> ZeroKey, err |-> "invalid key number"]
                 ELSE IF number.value < 1 \/ number.value > 12
                 THEN [key |-> ZeroKey, err |-> "key number out of range"]
                 ELSE [key |-> Key(number.value, mode), err |-> "nil"]

\* BPM is held in tenths of a beat per minute.
Track(title, artist, bpm, energy, key) ==
    [Title |-> title, Artist |-> artist, BPM |-> bpm, Energy |-> energy, Key |-> key]

\* Clone as it would be with a field left out of the copy
CloneWithoutArtist(t) ==
    [Title |-> t.Title, Artist |-> "", BPM |-> t.BPM, Energy |-> t.Energy, Key |-> t.Key]

Clone(t) ==
    [Title |-> t.Title, Artist |-> t.Artist, BPM |-> t.BPM, Energy |-> t.Energy,
     Key |-> t.Key]

CloneAll(ts) == [i \in 1..Len(ts) |-> Clone(ts[i])]

\* The float64 value NaN, which strconv.ParseFloat returns for "NaN" and which
\* no fixed-point value of the model equals. Arithmetic on NaN gives NaN and
\* every comparison with NaN is false.
NaN == -2147483647

IsNaN(x) == x = NaN

\* float64(t.Energy) and t.BPM as fixed-point values
EnergyFx(t) == t.Energy * Scale
BpmFx(t) == IF IsNaN(t.BPM) THEN NaN ELSE t.BPM * (Scale \div 10)

\* The tracks Init draws its input lists from.
Universe ==
    { Track("u1", "x", 1240, 0, Key(11, ModeA)),
      Track("u2", "x", 1400, 100, Key(2, ModeA)),
      Track("u3", "x", 1240, 0, Key(3, ModeA)),
      Track("u4", "y", 1265, 20, Key(12, ModeB)),
      Track("u5", "y", 1280, 50, Key(1, ModeA)),
      Track("u6", "y", 1250, 60, Key(3, ModeB)) }

RECURSIVE SeqsUpTo(_, _)
SeqsUpTo(S, n) ==
    IF n = 0 THEN {<<>>}
    ELSE LET shorter == SeqsUpTo(S, n - 1)
         IN  shorter \cup {Append(s, x) : s \in {q \in shorter : Len(q) = n - 1}, x \in S}

Inputs == SeqsUpTo(Universe, MaxTracks)


Limits == {-1, 0, 1, 2, MaxTracks + 1}

\* ---------------------------------------------------- context options
\* A context carries an optional limit and an optional seed.
Background == [hasLimit |-> FALSE, limit |-> 0, hasSeed |-> FALSE, seed |-> 0]

WithLimit(ctx, l) ==
    IF l <= 0 THEN ctx ELSE [ctx EXCEPT !.hasLimit = TRUE, !.limit = l]

limitFromContext(ctx) == IF ctx.hasLimit THEN ctx.limit ELSE 0

WithSeed(ctx, s) == [ctx EXCEPT !.hasSeed = TRUE, !.seed = s]

\* (seed, ok)
seedFromContext(ctx) ==
    IF ctx.hasSeed THEN [seed |-> ctx.seed, ok |-> TRUE] ELSE [seed |-> 0, ok |-> FALSE]

\* The seeds a caller may pass to WithSeed, and the contexts Init draws.
Seeds == {0, 12345}

SeededContexts == {Background} \cup {WithSeed(Background, s) : s \in Seeds}

\* newMixPlanner's choice of seed: "context" when the generator is seeded with
\* the context's seed (the same stream on every call), "time" when it is seeded
\* with time.Now().UnixNano() (a stream of its own on every call).
newSource(ctx) ==
    LET r == seedFromContext(ctx)
    IN  IF ~r.ok \/ r.seed = 0 THEN "time" ELSE "context"

\* -------------------------------------------------------- math/rand
\* A generator is the stream of words its seed determines; Intn(n) reduces
\* the next word.
Words == 0..(MaxTracks - 1)

Intn(w, n) == w % n

WordAt(ws, i) == IF i <= Len(ws) THEN ws[i] ELSE 0

\* ------------------------------------------------------------ mixStats
\* q is given in quarters (1, 2, 3 for 0.25, 0.5, 0.75); values are sorted
\* fixed-point numbers, NaN first as sort.Float64s leaves them.
quantileFloats(values, q) ==
    IF Len(values) = 0 THEN 0
    ELSE IF q <= 0 THEN values[1]
    ELSE IF q >= 4 THEN values[Len(values)]
    ELSE LET position4 == q * (Len(values) - 1)
             lower == position4 \div 4
             upper == (position4 + 3) \div 4
         IN  IF lower = upper THEN values[lower + 1]
             ELSE IF IsNaN(values[lower + 1]) \/ IsNaN(values[upper + 1]) THEN NaN
             ELSE values[lower + 1]
                  + ((values[upper + 1] - values[lower + 1]) \div 4) * (position4 % 4)

quantileInts(values, q) ==
    quantileFloats([i \in 1..Len(values) |-> values[i] * Scale], q)

analyzeMixStats(tracks) ==
    LET energies == SortInts([i \in 1..Len(tracks) |-> tracks[i].Energy])
        bpms == SortInts([i \in 1..Len(tracks) |-> BpmFx(tracks[i])])
    IN  [energySorted |-> energies,
         bpmSorted |-> bpms,
         energyLow |-> quantileInts(energies, 1),
         energyHigh |-> quantileInts(energies, 3),
         energyMedian |-> quantileInts(energies, 2),
         bpmMedian |-> quantileFloats(bpms, 2)]

\* idealCycleLength as it would be without the upper clamp
idealCycleLengthUnclamped(total) ==
    IF total <= cycleMinTracks
    THEN IF total = 0 THEN cycleMinTracks ELSE total
    ELSE LET estimatedCycles == Max2(1, RoundDiv(total, cycleIdealTracks))
         IN  Max2(RoundDiv(total, estimatedCycles), cycleMinTracks)

idealCycleLength(total) ==
    IF total <= cycleMinTracks
    THEN IF total = 0 THEN cycleMinTracks ELSE total
    ELSE LET estimatedCycles == Max2(1, RoundDiv(total, cycleIdealTracks))
         IN  Min2(Max2(RoundDiv(total, estimatedCycles), cycleMinTracks), cycleMaxTracks)

\* ---------------------------------------------------------- mixPlanner
\* A Go map: a function on the keys present; a missing key reads as 0.
EmptyMap == [k \in {} |-> 0]

MapGet(m, k) == IF k \in DOMAIN m THEN m[k] ELSE 0

MapInc(m, k) == IF k \in DOMAIN m THEN [m EXCEPT ![k] = @ + 1] ELSE m @@ (k :> 1)

MapDelete(m, k) == [x \in DOMAIN m \ {k} |-> m[x]]

RECURSIVE CountKeys(_, _)
CountKeys(ts, m) ==
    IF ts = <<>> THEN m ELSE CountKeys(Tail(ts), MapInc(m, Head(ts).Key))

RECURSIVE CountNumbers(_, _)
CountNumbers(ts, m) ==
    IF ts = <<>> THEN m ELSE CountNumbers(Tail(ts), MapInc(m, Head(ts).Key.Number))

\* newMixPlanner as it would be without the copy: remaining := tracks
newMixPlannerShared(ctx, tracks, targetCount) ==
    [remaining |-> tracks,
     backing |-> "caller",
     stats |-> analyzeMixStats(tracks),
     desiredCycleLength |-> idealCycleLength(Len(tracks)),
     countsByKey |-> CountKeys(tracks, EmptyMap),
     countsByNumber |-> CountNumbers(tracks, EmptyMap),
     rng |-> newSource(ctx),
     totalTracks |-> Len(tracks),
     targetCount |-> targetCount]

\* remaining is the planner's slice; backing names the array it points into:
\* "own" for the array newMixPlanner makes, "caller" for the caller's.
newMixPlanner(ctx, tracks, targetCount) ==
    LET remaining == CloneAll(tracks)
    IN  [remaining |-> remaining,
         backing |-> "own",
         stats |-> analyzeMixStats(remaining),
         desiredCycleLength |-> idealCycleLength(Len(remaining)),
         countsByKey |-> CountKeys(remaining, EmptyMap),
         countsByNumber |-> CountNumbers(remaining, EmptyMap),
         rng |-> newSource(ctx),
         totalTracks |-> Len(tracks),
         targetCount |-> targetCount]

remainingCount(p) == Len(p.remaining)

\* startScore as it would be without the term for a repeated exact key
startScoreWithoutModeCount(p, candidate) ==
    LET keyCount == MapGet(p.countsByNumber, candidate.Key.Number)
        energyDiff == Abs(EnergyFx(candidate) - p.stats.energyLow)
    IN  IF IsNaN(BpmFx(candidate)) \/ IsNaN(p.stats.bpmMedian) THEN NaN
        ELSE (-keyCount * 6) * Scale + (energyDiff \div 5)
             + (Abs(BpmFx(candidate) - p.stats.bpmMedian) \div 20)

startScore(p, candidate) ==
    LET keyCount == MapGet(p.countsByNumber, candidate.Key.Number)
        modeCount == MapGet(p.countsByKey, candidate.Key)
        freqScore == (-keyCount * 6 - (IF modeCount > 1 THEN 1 ELSE 0)) * Scale
        energyTarget == p.stats.energyLow
        energyDiff == Abs(EnergyFx(candidate) - energyTarget)
    IN  IF IsNaN(BpmFx(candidate)) \/ IsNaN(p.stats.bpmMedian) THEN NaN
        ELSE LET bpmDiff == Abs(BpmFx(candidate) - p.stats.bpmMedian)
             IN  freqScore + (energyDiff \div 5) + (bpmDiff \div 20)

\* The loop of chooseStartIndex from index idx on; acc.inf stands for the
\* initial bestScore of +Inf. A NaN score fails both comparisons.
RECURSIVE StartCandidates(_, _, _)
StartCandidates(p, idx, acc) ==
    IF idx > Len(p.remaining) THEN acc.candidates
    ELSE LET score == startScore(p, p.remaining[idx])
         IN  IF IsNaN(score) THEN StartCandidates(p, idx + 1, acc)
             ELSE IF acc.inf \/ score < acc.bestScore - startSelectionTolerance
             THEN StartCandidates(p, idx + 1,
                      [inf |-> FALSE, bestScore |-> score, candidates |-> <<idx>>])
             ELSE IF score <= acc.bestScore + startSelectionTolerance
             THEN StartCandidates(p, idx + 1,
                      [acc EXCEPT !.candidates = Append(@, idx)])
             ELSE StartCandidates(p, idx + 1, acc)

\* w is the word the generator yields; indices are 1-based.
chooseStartIndex(p, w) ==
    LET candidates ==
            StartCandidates(p, 1, [inf |-> TRUE, bestScore |-> 0, candidates |-> <<>>])
    IN  IF Len(candidates) = 0 THEN 1
        ELSE candidates[Intn(w, Len(candidates)) + 1]

\* take as it would be without p.remaining[idx] = p.remaining[last]: the last
\* track is dropped instead of the selected one
takeDroppingLast(p, idx) ==
    [selected |-> p.remaining[idx],
     p |-> [p EXCEPT !.remaining = SubSeq(p.remaining, 1, Len(p.remaining) - 1)]]

\* take as it would be without the deletes of exhausted counts
takeKeepingZeroCounts(p, idx) ==
    LET selected == p.remaining[idx]
        last == Len(p.remaining)
    IN  [selected |-> selected,
         p |-> [p EXCEPT
                  !.countsByKey = [@ EXCEPT ![selected.Key] = @ - 1],
                  !.countsByNumber = [@ EXCEPT ![selected.Key.Number] = @ - 1],
                  !.remaining =
                      SubSeq([p.remaining EXCEPT ![idx] = p.remaining[last]], 1, last - 1)]]

\* take: the planner after the removal, and the track removed
take(p, idx) ==
    LET selected == p.remaining[idx]
        byKey == MapGet(p.countsByKey, selected.Key) - 1
        byNumber == MapGet(p.countsByNumber, selected.Key.Number) - 1
        last == Len(p.remaining)
    IN  [selected |-> selected,
         p |-> [p EXCEPT
                  !.countsByKey =
                      IF byKey <= 0 THEN MapDelete(@, selected.Key)
                      ELSE [@ EXCEPT ![selected.Key] = byKey],
                  !.countsByNumber =
                      IF byNumber <= 0 THEN MapDelete(@, selected.Key.Number)
                      ELSE [@ EXCEPT ![selected.Key.Number] = byNumber],
                  !.remaining =
                      SubSeq([p.remaining EXCEPT ![idx] = p.remaining[last]], 1, last - 1)]]

\* What take's p.remaining[idx] = p.remaining[last] writes into the caller's
\* array: nothing unless the planner's slice points into it.
takeWrite(p, idx, callerArray) ==
    IF p.backing = "caller"
    THEN [callerArray EXCEPT ![idx] = p.remaining[Len(p.remaining)]]
    ELSE callerArray

initialState(p, start) ==
    [prev |-> start,
     prevSet |-> TRUE,
     cycleIndex |-> 0,
     tracksInCycle |-> 1,
     cycleStartEnergy |-> EnergyFx(start),
     desiredCycleLen |-> p.desiredCycleLength,
     stats |-> p.stats,
     sameNumberStreak |-> 0,
     stepsSinceStep1 |-> 0,
     stepsSinceStep2 |-> 0,
     stepsSinceLetterFlip |-> 0,
     stepsSinceEnergyDrop |-> 0]

\* ---------------------------------------------------------- transitions
computeTransition(state, candidate) ==
    IF ~state.prevSet THEN [diff |-> 0, wrap |-> FALSE, modeChange |-> FALSE]
    ELSE LET d == candidate.Key.Number - state.prev.Key.Number
         IN  [diff |-> IF d < 0 THEN d + 12 ELSE d,
              wrap |-> d < 0,
              modeChange |-> candidate.Key.Mode # state.prev.Key.Mode]

\* categorizeTransition as it would be if a mode flip on the same number were
\* filed like a repeat
categorizeTransitionFlipAsRepeat(state, trans) ==
    IF ~state.prevSet THEN 0
    ELSE IF trans.modeChange /\ trans.diff > 0 THEN 4
    ELSE CASE trans.diff = 1 -> 0
           [] trans.diff = 2 -> 1
           [] trans.diff = 0 -> 2
           [] OTHER -> 4

categorizeTransition(state, trans) ==
    IF ~state.prevSet THEN 0
    ELSE IF trans.modeChange /\ trans.diff > 0 THEN 4
    ELSE CASE trans.diff = 1 -> IF trans.modeChange THEN 4 ELSE 0
           [] trans.diff = 2 -> IF trans.modeChange THEN 4 ELSE 1
           [] trans.diff = 0 -> IF trans.modeChange THEN 3 ELSE 2
           [] OTHER -> 4

hasShallowStepOption(state, p, maxStep) ==
    IF ~state.prevSet THEN TRUE
    ELSE \E i \in 1..Len(p.remaining) :
            LET trans == computeTransition(state, p.remaining[i])
            IN  \/ trans.diff = 0
                \/ ~trans.modeChange /\ trans.diff > 0 /\ trans.diff <= maxStep

keyTransitionCost(state, trans) ==
    IF ~state.prevSet THEN 0
    ELSE LET diff == trans.diff
             base == CASE diff = 0 -> 3 * Scale
                       [] diff = 1 -> 0
                       [] diff = 2 -> 0
                       [] diff = 3 -> 2 * Scale
                       [] OTHER -> (diff * diff) * (Scale \div 2)
             modePenalty == IF trans.modeChange /\ diff > 0 THEN 12 * Scale ELSE 0
             basePenalty ==
                 IF state.tracksInCycle >= state.desiredCycleLen - 1
                 THEN ((6 * Scale) \div 10) * 4
                 ELSE IF state.tracksInCycle >= state.desiredCycleLen - 2
                 THEN ((6 * Scale) \div 10) * 6
                 ELSE 6 * Scale
             wrapPenalty == IF trans.wrap /\ diff > 2 THEN basePenalty ELSE 0
         IN  base + modePenalty + wrapPenalty

nextEnergyTarget(state, stats, desiredCycleLen) ==
    LET base == state.cycleStartEnergy
        high == IF stats.energyHigh <= base
                THEN Min2(100 * Scale, base + 12 * Scale)
                ELSE stats.energyHigh
        len == maxInt(desiredCycleLen, 1)
    IN  IF state.tracksInCycle > len THEN base + (high - base)
        ELSE base + ((high - base) \div len) * state.tracksInCycle

\* The bonus for an overdue energy drop and the penalty for a missing one.
EnergyVariety(state, drop) ==
    IF drop >= energyDropThreshold * Scale
       /\ state.stepsSinceEnergyDrop >= varietyEnergyThreshold
    THEN -((state.stepsSinceEnergyDrop - varietyEnergyThreshold + 1)
           * varietyEnergyRewardTenths * (Scale \div 10))
    ELSE IF drop < energyDropThreshold * Scale
            /\ state.stepsSinceEnergyDrop >= varietyEnergyThreshold + 2
    THEN (state.stepsSinceEnergyDrop - (varietyEnergyThreshold + 1))
         * varietyEnergyPenaltyTenths * (Scale \div 10)
    ELSE 0

energyTransitionCost(state, candidate, trans, stats, desiredCycleLen) ==
    LET energy == EnergyFx(candidate)
    IN  IF ~state.prevSet THEN Abs(energy - stats.energyLow) \div 8
        ELSE LET delta == energy - EnergyFx(state.prev)
                 drop == -delta
                 wrapCost ==
                     Abs(energy - stats.energyLow) \div 6
                     + (IF drop < 12 * Scale THEN (12 * Scale - drop) \div 6 ELSE 0)
                     + EnergyVariety(state, drop)
                 target == nextEnergyTarget(state, stats, desiredCycleLen)
                 stepCost ==
                     Abs(energy - target) \div 9
                     + (IF delta < 0
                        THEN IF state.tracksInCycle > desiredCycleLen \div 2
                             THEN Abs(delta) \div 10
                             ELSE Abs(delta) \div 6
                        ELSE IF delta > 12 * Scale
                        THEN (delta - 12 * Scale) \div 8
                        ELSE 0)
                     + EnergyVariety(state, drop)
                 cost == IF trans.wrap THEN wrapCost ELSE stepCost
             IN  IF cost < -5 * Scale THEN -5 * Scale ELSE cost

bpmTransitionCost(state, candidate, stats) ==
    IF ~state.prevSet
    THEN IF IsNaN(BpmFx(candidate)) \/ IsNaN(stats.bpmMedian) THEN NaN
         ELSE Abs(BpmFx(candidate) - stats.bpmMedian) \div 6
    ELSE IF IsNaN(BpmFx(candidate)) \/ IsNaN(BpmFx(state.prev)) THEN NaN
    ELSE LET diff == Abs(BpmFx(candidate) - BpmFx(state.prev))
         IN  IF diff <= Scale THEN diff \div 5
             ELSE IF 2 * diff <= 5 * Scale THEN (diff \div 5) * 2
             ELSE IF diff <= 5 * Scale
             THEN 8 * (Scale \div 10) + (diff - 25 * (Scale \div 10)) \div 2
             ELSE 2 * Scale + ((diff - 5 * Scale) \div 10) * 7

\* coverage = targetCount / totalTracks, clamped to [0.1, 1]
Coverage(p) ==
    IF p.totalTracks > 0
    THEN LET c == (Scale * p.targetCount) \div p.totalTracks
         IN  IF c > Scale THEN Scale
             ELSE IF c < Scale \div 10 THEN Scale \div 10
             ELSE c
    ELSE Scale

\* The variety terms of transitionScoreWithTransition (lines 367-392).
VarietyTerms(state, trans) ==
    IF ~state.prevSet THEN 0
    ELSE (IF trans.diff = 1
          THEN (IF state.stepsSinceStep1 >= varietyStepThreshold
                THEN -((state.stepsSinceStep1 - varietyStepThreshold + 1)
                       * varietyStepWeight * Scale)
                ELSE 0)
               + (IF state.stepsSinceStep2 >= varietyStepThreshold + 1
                  THEN (state.stepsSinceStep2 - varietyStepThreshold)
                       * (varietyStepWeight * 7 * (Scale \div 10))
                  ELSE 0)
          ELSE 0)
         + (IF trans.diff = 2
            THEN (IF state.stepsSinceStep2 >= varietyStepThreshold
                  THEN -((state.stepsSinceStep2 - varietyStepThreshold + 1)
                         * varietyStepWeight * Scale)
                  ELSE 0)
                 + (IF state.stepsSinceStep1 >= varietyStepThreshold + 1
                    THEN (state.stepsSinceStep1 - varietyStepThreshold)
                         * (varietyStepWeight * 7 * (Scale \div 10))
                    ELSE 0)
            ELSE 0)
         + (IF trans.diff = 0 /\ trans.modeChange
               /\ state.stepsSinceLetterFlip >= varietyLetterThreshold
            THEN -((state.stepsSinceLetterFlip - varietyLetterThreshold + 1)
                   * varietyLetterWeightTenths * (Scale \div 10))
            ELSE 0)

transitionScoreWithTransition(p, state, candidate, trans) ==
    LET keyCost == keyTransitionCost(state, trans)
        energyCost ==
            energyTransitionCost(state, candidate, trans, p.stats, p.desiredCycleLength)
        bpmCost == bpmTransitionCost(state, candidate, p.stats)
        remainingOfNumber == MapGet(p.countsByNumber, candidate.Key.Number)
        flexCost == IF remainingOfNumber > 0 THEN Scale \div remainingOfNumber ELSE 0
        coverage == Coverage(p)
        remainingCurrent == MapGet(p.countsByNumber, state.prev.Key.Number)
        remainingMode == MapGet(p.countsByKey, state.prev.Key)
        baseWeight == (coverage \div 5) * 3
    IN  IF IsNaN(bpmCost) THEN NaN
        ELSE
        keyCost * keyWeight + (bpmCost \div 10) * bpmWeightTenths
        + energyCost * energyWeight + flexCost
        + (IF state.prevSet /\ trans.diff > 0
           THEN remainingCurrent * (coverage \div 2) + remainingMode * coverage
           ELSE 0)
        + (IF state.prevSet /\ trans.diff >= 3 /\ hasShallowStepOption(state, p, 2)
           THEN ((trans.diff - 2) * 8 + 18) * Scale
           ELSE 0)
        + VarietyTerms(state, trans)
        - remainingOfNumber * baseWeight
        - MapGet(p.countsByKey, candidate.Key) * baseWeight
        + (IF trans.wrap /\ trans.diff > 2 /\ state.tracksInCycle < cycleMinTracks
           THEN 7 * Scale
           ELSE 0)
        + (IF trans.wrap /\ trans.diff > 2 /\ state.prevSet
           THEN remainingCurrent * 2 * Scale
           ELSE 0)
        + (IF state.prevSet /\ trans.diff = 0
           THEN (state.sameNumberStreak + 1) * 6 * Scale
           ELSE 0)

\* |a - b| <= 1e-6: below one unit of 1/Scale
closeFloat(a, b) == Abs(a - b) <= (Scale \div 1000000)

\* order with its repeated entries dropped, first occurrences kept
RECURSIVE Unique(_, _)
Unique(order, seen) ==
    IF order = <<>> THEN <<>>
    ELSE IF Head(order) \in seen THEN Unique(Tail(order), seen)
    ELSE <<Head(order)>> \o Unique(Tail(order), seen \cup {Head(order)})

\* categoryOrder as it would be without the promotion of the mode flip
categoryOrderWithoutFlip(state) ==
    IF ~state.prevSet THEN <<0, 1, 2, 3, 4>>
    ELSE IF state.stepsSinceStep2 >= varietyStepThreshold THEN <<1, 0, 2, 3, 4>>
    ELSE <<0, 1, 2, 3, 4>>

\* categoryOrder as it would be with the catch-all category tried first
categoryOrderCatchAllFirst(state) == <<4, 0, 1, 2, 3>>

categoryOrder(state) ==
    IF ~state.prevSet THEN <<0, 1, 2, 3, 4>>
    ELSE LET stepOrder ==
                 IF state.stepsSinceStep2 >= varietyStepThreshold THEN <<1, 0, 2, 3, 4>>
                 ELSE IF state.stepsSinceStep1 >= varietyStepThreshold
                 THEN <<0, 1, 2, 3, 4>>
                 ELSE <<0, 1, 2, 3, 4>>
             order ==
                 IF state.stepsSinceLetterFlip >= varietyLetterThreshold
                 THEN <<3>> \o stepOrder
                 ELSE stepOrder
         IN  Unique(order, {})

NoChoice == [idx |-> 0, score |-> 0, set |-> FALSE]

\* The candidate loop of chooseNextIndex from index idx on.  acc.buckets[c + 1]
\* is buckets[c]; acc.used counts the words drawn from ws so far.
RECURSIVE NextBuckets(_, _, _, _, _)
NextBuckets(p, state, ws, idx, acc) ==
    IF idx > Len(p.remaining) THEN acc
    ELSE LET candidate == p.remaining[idx]
             trans == computeTransition(state, candidate)
             score == transitionScoreWithTransition(p, state, candidate, trans)
             category == categorizeTransition(state, trans)
             best == acc.buckets[category + 1]
             chosen == [idx |-> idx, score |-> score, set |-> TRUE]
         IN  IF category < 0 \/ category >= 5
             THEN NextBuckets(p, state, ws, idx + 1, acc)
             ELSE IF ~best.set
                     \/ (/\ ~IsNaN(score) /\ ~IsNaN(best.score)
                         /\ score < best.score - (Scale \div 1000000))
             THEN NextBuckets(p, state, ws, idx + 1,
                      [acc EXCEPT !.buckets[category + 1] = chosen])
             ELSE IF /\ best.set /\ ~IsNaN(score) /\ ~IsNaN(best.score)
                     /\ closeFloat(score, best.score)
             THEN NextBuckets(p, state, ws, idx + 1,
                      [buckets |->
                           IF Intn(WordAt(ws, acc.used + 1), 2) = 0
                           THEN [acc.buckets EXCEPT ![category + 1] = chosen]
                           ELSE acc.buckets,
                       used |-> acc.used + 1])
             ELSE NextBuckets(p, state, ws, idx + 1, acc)

Buckets(p, state, ws) ==
    NextBuckets(p, state, ws, 1, [buckets |-> [c \in 1..5 |-> NoChoice], used |-> 0])

\* How many words one chooseNextIndex call draws: one per near-tie.
FlipCount(p, state) == Buckets(p, state, <<>>).used

RECURSIVE FirstSet(_, _)
FirstSet(buckets, order) ==
    IF order = <<>> THEN 1
    ELSE IF buckets[Head(order) + 1].set THEN buckets[Head(order) + 1].idx
    ELSE FirstSet(buckets, Tail(order))

\* Indices are 1-based: the fallback "return 0" is index 1.
chooseNextIndex(p, state, ws) ==
    FirstSet(Buckets(p, state, ws).buckets, categoryOrder(state))

\* 1e-6 in the unit of the scores handed to ScoredBuckets, which is 1e-7
scoreTolerance == 10

\* The candidate loop of chooseNextIndex on candidates given by their category
\* and their score in units of 1e-7: the scores of tracks that differ in BPM by
\* less than 1e-5 lie closer together than one unit of 1/Scale.
RECURSIVE ScoredBuckets(_, _, _, _)
ScoredBuckets(cands, ws, idx, acc) ==
    IF idx > Len(cands) THEN acc
    ELSE LET score == cands[idx].score
             category == cands[idx].category
             best == acc.buckets[category + 1]
             chosen == [idx |-> idx, score |-> score, set |-> TRUE]
         IN  IF category < 0 \/ category >= 5
             THEN ScoredBuckets(cands, ws, idx + 1, acc)
             ELSE IF ~best.set \/ score < best.score - scoreTolerance
             THEN ScoredBuckets(cands, ws, idx + 1,
                      [acc EXCEPT !.buckets[category + 1] = chosen])
             ELSE IF best.set /\ Abs(score - best.score) <= scoreTolerance
             THEN ScoredBuckets(cands, ws, idx + 1,
                      [buckets |->
                           IF Intn(WordAt(ws, acc.used + 1), 2) = 0
                           THEN [acc.buckets EXCEPT ![category + 1] = chosen]
                           ELSE acc.buckets,
                       used |-> acc.used + 1])
             ELSE ScoredBuckets(cands, ws, idx + 1, acc)

\* cappedIncrement as it would be without the cap
uncappedIncrement(v) == v + 1

cappedIncrement(v) == IF v < 100 THEN v + 1 ELSE 100

\* advance as it would be if a wrap did not restart the count of the cycle
advanceWithoutCycleRestart(state, next) ==
    IF ~state.prevSet
    THEN [state EXCEPT !.prev = next, !.prevSet = TRUE,
                       !.cycleStartEnergy = EnergyFx(next), !.tracksInCycle = 1]
    ELSE LET previous == state.prev
             trans == computeTransition(state, next)
             energyDelta == next.Energy - previous.Energy
         IN  [state EXCEPT
                !.prev = next,
                !.cycleIndex = IF trans.wrap THEN @ + 1 ELSE @,
                !.tracksInCycle = @ + 1,
                !.cycleStartEnergy = IF trans.wrap THEN EnergyFx(next) ELSE @,
                !.sameNumberStreak = IF trans.diff = 0 THEN @ + 1 ELSE 0,
                !.stepsSinceStep1 = IF trans.diff = 1 THEN 0 ELSE cappedIncrement(@),
                !.stepsSinceStep2 = IF trans.diff = 2 THEN 0 ELSE cappedIncrement(@),
                !.stepsSinceLetterFlip =
                    IF previous.Key.Mode # next.Key.Mode THEN 0 ELSE cappedIncrement(@),
                !.stepsSinceEnergyDrop =
                    IF -energyDelta >= energyDropThreshold THEN 0 ELSE cappedIncrement(@)]

advance(state, next) ==
    IF ~state.prevSet
    THEN [state EXCEPT !.prev = next, !.prevSet = TRUE,
                       !.cycleStartEnergy = EnergyFx(next), !.tracksInCycle = 1,
                       !.sameNumberStreak = 0, !.stepsSinceStep1 = 0,
                       !.stepsSinceStep2 = 0, !.stepsSinceLetterFlip = 0,
                       !.stepsSinceEnergyDrop = 0]
    ELSE LET previous == state.prev
             trans == computeTransition(state, next)
             energyDelta == next.Energy - previous.Energy
         IN  [state EXCEPT
                !.prev = next,
                !.cycleIndex = IF trans.wrap THEN @ + 1 ELSE @,
                !.tracksInCycle = IF trans.wrap THEN 1 ELSE @ + 1,
                !.cycleStartEnergy = IF trans.wrap THEN EnergyFx(next) ELSE @,
                !.sameNumberStreak = IF trans.diff = 0 THEN @ + 1 ELSE 0,
                !.stepsSinceStep1 = IF trans.diff = 1 THEN 0 ELSE cappedIncrement(@),
                !.stepsSinceStep2 = IF trans.diff = 2 THEN 0 ELSE cappedIncrement(@),
                !.stepsSinceLetterFlip =
                    IF previous.Key.Mode # next.Key.Mode THEN 0 ELSE cappedIncrement(@),
                !.stepsSinceEnergyDrop =
                    IF -energyDelta >= energyDropThreshold THEN 0 ELSE cappedIncrement(@)]

\* --------------------------------------------------------------- state
VARIABLES
    tracks,     \* the caller's slice (its backing array)
    given,      \* the tracks as the caller handed them over
    limit,      \* the limit the caller asked WithLimit for
    ctx,        \* the context's values: limit and seed
    cancelled,  \* whether ctx.Done() is closed
    pc,         \* "idle" before Sort, "loop" inside its loop, "done" after it
    p,          \* the mixPlanner
    state,      \* the mixState
    ordered,    \* the tracks emitted so far
    result,     \* what Sort returned
    stream,     \* the words the generator of the first call yielded
    drawn,      \* how many words the current call has drawn
    call,       \* 1 for the first Sort call, 2 for its repetition
    first,      \* what the first call returned
    keyInput,   \* the label handed to ParseKey
    keyResult,  \* what ParseKey returned
    records,    \* the records csv.Reader yields to Load, in order
    line,       \* Load's line counter
    header,     \* Load's header flag
    loaded,     \* the tracks Load has appended
    loadResult, \* what Load returned
    callArgs,   \* the arguments of a call of one of the planner's functions
    callResult  \* what that call returned

sortVars == <<tracks, given, limit, ctx, cancelled, pc, p, state, ordered, result,
              stream, drawn, call, first>>

keyVars == <<keyInput, keyResult>>

loadVars == <<records, line, header, loaded, loadResult>>

callVars == <<callArgs, callResult>>

auxVars == <<keyVars, loadVars, callVars>>

vars == <<sortVars, auxVars>>

ZeroTrack == Track("", "", 0, 0, ZeroKey)

ZeroStats ==
    [energySorted |-> <<>>, bpmSorted |-> <<>>, energyLow |-> 0, energyHigh |-> 0,
     energyMedian |-> 0, bpmMedian |-> 0]

ZeroState ==
    [prev |-> ZeroTrack, prevSet |-> FALSE, cycleIndex |-> 0, tracksInCycle |-> 0,
     cycleStartEnergy |-> 0, desiredCycleLen |-> 0, stats |-> ZeroStats,
     sameNumberStreak |-> 0, stepsSinceStep1 |-> 0, stepsSinceStep2 |-> 0,
     stepsSinceLetterFlip |-> 0, stepsSinceEnergyDrop |-> 0]

NoPlanner ==
    [remaining |-> <<>>, backing |-> "own", stats |-> ZeroStats,
     desiredCycleLength |-> 0, countsByKey |-> EmptyMap, countsByNumber |-> EmptyMap,
     rng |-> "time", totalTracks |-> 0, targetCount |-> 0]

NoResult == [tracks |-> <<>>, err |-> "none"]

NoKeyResult == [key |-> ZeroKey, err |-> "none"]

NoLoadResult == [tracks |-> <<>>, err |-> "none"]

NoCall == [fn |-> "none"]

\* Load has not been called
LoadIdle ==
    /\ records = <<>>
    /\ line = 0
    /\ header = FALSE
    /\ loaded = <<>>
    /\ loadResult = NoLoadResult

\* None of the planner's functions is called on its own
CallIdle ==
    /\ callArgs = NoCall
    /\ callResult = NoCall

Init ==
    /\ tracks \in Inputs
    /\ given = tracks
    /\ limit \in Limits
    /\ \E c \in SeededContexts : ctx = WithLimit(c, limit)
    /\ cancelled = FALSE
    /\ pc = "idle"
    /\ p = NoPlanner
    /\ state = ZeroState
    /\ ordered = <<>>
    /\ result = NoResult
    /\ stream = <<>>
    /\ drawn = 0
    /\ call = 1
    /\ first = NoResult
    /\ keyInput = <<>>
    /\ keyResult = NoKeyResult
    /\ LoadIdle
    /\ CallIdle

\* The k words the generator yields next.  A generator seeded from the context
\* repeats, in the second call, the words it yielded in the first.
Draws(k, rng) ==
    {ws \in [1..k -> Words] :
        \A i \in 1..k :
            (call = 2 /\ rng = "context" /\ drawn + i <= Len(stream))
                => ws[i] = stream[drawn + i]}

Drawn(ws) ==
    /\ drawn' = drawn + Len(ws)
    /\ stream' = IF call = 1 THEN stream \o ws ELSE stream

\* The caller's context is cancelled (or its deadline passes).
Cancel ==
    /\ ~cancelled
    /\ pc \in {"idle", "loop"}
    /\ cancelled' = TRUE
    /\ UNCHANGED <<tracks, given, limit, ctx, pc, p, state, ordered, result, stream,
                   drawn, call, first>>
    /\ UNCHANGED auxVars

\* The target count as it would be without the limit > 0 test
TargetCountAnyLimit(c, ts) ==
    LET l == limitFromContext(c)
    IN  IF l < Len(ts) THEN l ELSE Len(ts)

TargetCount(c, ts) ==
    LET l == limitFromContext(c)
    IN  IF l > 0 /\ l < Len(ts) THEN l ELSE Len(ts)

\* Sort, lines 48-54: at most one track
SortShort ==
    /\ pc = "idle"
    /\ Len(tracks) <= 1
    /\ result' = [tracks |-> CloneAll(tracks), err |-> "nil"]
    /\ pc' = "done"
    /\ UNCHANGED <<tracks, given, limit, ctx, cancelled, p, state, ordered, stream,
                   drawn, call, first>>
    /\ UNCHANGED auxVars

\* Sort, lines 56-71: the planner, the start track, and the return when the
\* target is one track
SortStart ==
    /\ pc = "idle"
    /\ Len(tracks) > 1
    /\ LET targetCount == TargetCount(ctx, tracks)
           planner == newMixPlanner(ctx, tracks, targetCount)
       IN  \E ws \in Draws(1, planner.rng) :
              LET startIdx == chooseStartIndex(planner, ws[1])
                  taken == take(planner, startIdx)
                  start == taken.selected
                  out == <<start>>
              IN  /\ Drawn(ws)
                  /\ tracks' = takeWrite(planner, startIdx, tracks)
                  /\ p' = taken.p
                  /\ state' = initialState(taken.p, start)
                  /\ ordered' = out
                  /\ IF Len(out) >= targetCount
                     THEN /\ result' = [tracks |-> out, err |-> "nil"]
                          /\ pc' = "done"
                     ELSE /\ result' = result
                          /\ pc' = "loop"
    /\ UNCHANGED <<given, limit, ctx, cancelled, call, first>>
    /\ UNCHANGED auxVars

\* Sort, lines 73-78: the loop finds the context cancelled
SortCancelled ==
    /\ pc = "loop"
    /\ cancelled
    /\ result' = [tracks |-> <<>>, err |-> "context canceled"]
    /\ pc' = "done"
    /\ UNCHANGED <<tracks, given, limit, ctx, cancelled, p, state, ordered, stream,
                   drawn, call, first>>
    /\ UNCHANGED auxVars

\* Sort, lines 73-86: one iteration of the loop, and the return when the loop
\* condition fails after it
SortStep ==
    /\ pc = "loop"
    /\ ~cancelled
    /\ \E ws \in Draws(FlipCount(p, state), p.rng) :
          LET idx == chooseNextIndex(p, state, ws)
              taken == take(p, idx)
              next == taken.selected
              out == Append(ordered, next)
          IN  /\ Drawn(ws)
              /\ tracks' = takeWrite(p, idx, tracks)
              /\ p' = taken.p
              /\ state' = advance(state, next)
              /\ ordered' = out
              /\ IF remainingCount(taken.p) > 0 /\ Len(out) < p.targetCount
                 THEN /\ result' = result
                      /\ pc' = "loop"
                 ELSE /\ result' = [tracks |-> out, err |-> "nil"]
                      /\ pc' = "done"
    /\ UNCHANGED <<given, limit, ctx, cancelled, call, first>>
    /\ UNCHANGED auxVars

\* The caller sorts the same tracks again under the same context.
SortAgain ==
    /\ pc = "done"
    /\ call = 1
    /\ first' = result
    /\ call' = 2
    /\ pc' = "idle"
    /\ p' = NoPlanner
    /\ state' = ZeroState
    /\ ordered' = <<>>
    /\ result' = NoResult
    /\ drawn' = 0
    /\ UNCHANGED <<tracks, given, limit, ctx, cancelled, stream>>
    /\ UNCHANGED auxVars

Next == Cancel \/ SortShort \/ SortStart \/ SortCancelled \/ SortStep

Spec == Init /\ [][Next]_vars

NextTwice == Next \/ SortAgain

SpecTwice == Init /\ [][NextTwice]_vars

\* ---------------------------------------------------------- ParseKey
\* The characters key labels are drawn from.
KeyChars == {" ", "+", "0", "1", "2", "3", "a", "B", "x"}

KeyLabels == SeqsUpTo(KeyChars, MaxKeyLen)

\* Sort has not been called
SortIdle ==
    /\ tracks = <<>>
    /\ given = <<>>
    /\ limit = 0
    /\ ctx = Background
    /\ cancelled = FALSE
    /\ pc = "idle"
    /\ p = NoPlanner
    /\ state = ZeroState
    /\ ordered = <<>>
    /\ result = NoResult
    /\ stream = <<>>
    /\ drawn = 0
    /\ call = 1
    /\ first = NoResult

\* ParseKey has not been called
KeyIdle ==
    /\ keyInput = <<>>
    /\ keyResult = NoKeyResult

InitKey ==
    /\ tracks = <<>>
    /\ given = <<>>
    /\ limit = 0
    /\ ctx = Background
    /\ cancelled = FALSE
    /\ pc = "idle"
    /\ p = NoPlanner
    /\ state = ZeroState
    /\ ordered = <<>>
    /\ result = NoResult
    /\ stream = <<>>
    /\ drawn = 0
    /\ call = 1
    /\ first = NoResult
    /\ keyInput \in KeyLabels
    /\ keyResult = NoKeyResult
    /\ LoadIdle
    /\ CallIdle

CallParseKey ==
    /\ keyResult.err = "none"
    /\ keyResult' = ParseKey(keyInput)
    /\ UNCHANGED <<keyInput, sortVars, loadVars, callVars>>

NextKey == CallParseKey

SpecKey == InitKey /\ [][NextKey]_vars

\* ------------------------------------------------- Sort on ten-track lists
\* Lists long enough for an output of ten tracks that wraps the wheel
RampList ==
    << Track("r1", "x", 1260, 50, Key(3, ModeA)),
       Track("r2", "x", 1250, 40, Key(6, ModeA)),
       Track("r3", "x", 1240, 70, Key(6, ModeA)),
       Track("r4", "x", 1240, 50, Key(8, ModeA)),
       Track("r5", "x", 1250, 55, Key(11, ModeA)),
       Track("r6", "y", 1240, 70, Key(7, ModeB)),
       Track("r7", "y", 1260, 60, Key(5, ModeA)),
       Track("r8", "y", 1240, 50, Key(12, ModeA)),
       Track("r9", "y", 1240, 60, Key(8, ModeB)),
       Track("r10", "y", 1250, 70, Key(6, ModeA)) >>

MinorList ==
    << Track("m1", "x", 1260, 50, Key(4, ModeA)),
       Track("m2", "x", 1260, 60, Key(11, ModeA)),
       Track("m3", "x", 1240, 50, Key(3, ModeA)),
       Track("m4", "x", 1240, 50, Key(6, ModeA)),
       Track("m5", "x", 1260, 50, Key(1, ModeA)),
       Track("m6", "y", 1240, 55, Key(9, ModeA)),
       Track("m7", "y", 1250, 50, Key(8, ModeA)),
       Track("m8", "y", 1250, 50, Key(11, ModeA)),
       Track("m9", "y", 1260, 50, Key(5, ModeA)),
       Track("m10", "y", 1250, 60, Key(1, ModeA)) >>

FlatNames == <<"f1", "f2", "f3", "f4", "f5", "f6", "f7", "f8", "f9", "f10">>

FlatList ==
    [i \in 1..10 |->
        Track(FlatNames[i], "x", 1240 + 10 * (i % 3), 50, Key(((5 * i) % 12) + 1, ModeA))]

CycleInputs == {RampList, MinorList, FlatList}

CycleLimits == {0, 9, 10, 11}

InitCycle ==
    /\ tracks \in CycleInputs
    /\ given = tracks
    /\ limit \in CycleLimits
    /\ \E c \in SeededContexts : ctx = WithLimit(c, limit)
    /\ cancelled = FALSE
    /\ pc = "idle"
    /\ p = NoPlanner
    /\ state = ZeroState
    /\ ordered = <<>>
    /\ result = NoResult
    /\ stream = <<>>
    /\ drawn = 0
    /\ call = 1
    /\ first = NoResult
    /\ keyInput = <<>>
    /\ keyResult = NoKeyResult
    /\ LoadIdle
    /\ CallIdle

NextCycle == Cancel \/ SortStart \/ SortCancelled \/ SortStep

SpecCycle == InitCycle /\ [][NextCycle]_vars

\* ------------------------------------------- Sort on lists with close starts
\* Tracks of one energy: three that differ in BPM only by their distance to the
\* median, and two keys of one number, for lists that repeat an exact key
StartUniverse ==
    { Track("s1", "x", 1410, 50, Key(1, ModeA)),
      Track("s2", "x", 1250, 50, Key(5, ModeA)),
      Track("s3", "x", 930, 50, Key(9, ModeA)),
      Track("s4", "y", 1250, 50, Key(3, ModeA)),
      Track("s5", "y", 1250, 50, Key(3, ModeB)) }

StartInputs == SeqsUpTo(StartUniverse, MaxTracks)

InitStart ==
    /\ tracks \in StartInputs
    /\ given = tracks
    /\ limit \in Limits
    /\ \E c \in SeededContexts : ctx = WithLimit(c, limit)
    /\ cancelled = FALSE
    /\ pc = "idle"
    /\ p = NoPlanner
    /\ state = ZeroState
    /\ ordered = <<>>
    /\ result = NoResult
    /\ stream = <<>>
    /\ drawn = 0
    /\ call = 1
    /\ first = NoResult
    /\ KeyIdle
    /\ LoadIdle
    /\ CallIdle

SpecStart == InitStart /\ [][Next]_vars

\* ------------------------------------------- Sort on lists with a NaN tempo
\* Tracks as csvio.Load yields them for the BPM column "NaN", next to tracks
\* with a tempo
NaNUniverse ==
    { Track("n1", "x", NaN, 50, Key(1, ModeA)),
      Track("n2", "x", NaN, 60, Key(2, ModeA)),
      Track("n3", "y", 1240, 50, Key(1, ModeB)),
      Track("n4", "y", 1260, 70, Key(8, ModeA)) }

NaNInputs == SeqsUpTo(NaNUniverse, MaxTracks)

InitNaN ==
    /\ tracks \in NaNInputs
    /\ given = tracks
    /\ limit \in Limits
    /\ \E c \in SeededContexts : ctx = WithLimit(c, limit)
    /\ cancelled = FALSE
    /\ pc = "idle"
    /\ p = NoPlanner
    /\ state = ZeroState
    /\ ordered = <<>>
    /\ result = NoResult
    /\ stream = <<>>
    /\ drawn = 0
    /\ call = 1
    /\ first = NoResult
    /\ KeyIdle
    /\ LoadIdle
    /\ CallIdle

SpecNaN == InitNaN /\ [][Next]_vars

\* ------------------------------------------------------------ csvio.Load
\* strconv.ParseFloat on the characters of the model's alphabet (digits, sign,
\* point, space, a, B, x): an optional sign, digits with at most one point, at
\* least one digit. The value is in tenths; the fields of the model carry at
\* most one digit after the point.
\* The unsigned word "NaN", in either case, parses to NaN.
ParseFloat(str) ==
    LET signed == str # <<>> /\ Head(str) \in {"+", "-"}
        body == IF signed THEN Tail(str) ELSE str
        dots == {i \in 1..Len(body) : body[i] = "."}
        dot == IF dots = {} THEN Len(body) + 1
               ELSE CHOOSE i \in dots : \A j \in dots : i <= j
        whole == SubSeq(body, 1, dot - 1)
        frac == SubSeq(body, dot + 1, Len(body))
        ok == /\ Cardinality(dots) <= 1
              /\ \A i \in 1..Len(whole) : IsDigit(whole[i])
              /\ \A i \in 1..Len(frac) : IsDigit(frac[i])
              /\ Len(whole) + Len(frac) > 0
        nan == /\ Len(str) = 3
               /\ str[1] \in {"n", "N"} /\ str[2] \in {"a", "A"} /\ str[3] \in {"n", "N"}
    IN  IF nan THEN [value |-> NaN, ok |-> TRUE]
        ELSE IF ~ok THEN [value |-> 0, ok |-> FALSE]
        ELSE LET tenths == DecimalValue(whole, 0) * 10
                             + (IF frac = <<>> THEN 0 ELSE DigitValue(frac[1]))
             IN  [value |-> IF signed /\ Head(str) = "-" THEN -tenths ELSE tenths,
                  ok |-> TRUE]

looksLikeData(record) ==
    /\ Len(record) >= 5
    /\ ParseFloat(TrimSpace(record[3])).ok
    /\ Atoi(TrimSpace(record[4])).ok
    /\ ParseKey(record[5]).err = "nil"

\* parseRecord as it would be without the energy range test
parseRecordAnyEnergy(record) ==
    LET bpm == ParseFloat(TrimSpace(record[3]))
        energy == Atoi(TrimSpace(record[4]))
        key == ParseKey(record[5])
    IN  IF ~bpm.ok THEN [track |-> ZeroTrack, err |-> "invalid bpm"]
        ELSE IF ~energy.ok THEN [track |-> ZeroTrack, err |-> "invalid energy"]
        ELSE IF key.err # "nil" THEN [track |-> ZeroTrack, err |-> key.err]
        ELSE [track |-> Track(TrimSpace(record[1]), TrimSpace(record[2]), bpm.value,
                              energy.value, key.key),
              err |-> "nil"]

parseRecord(record) ==
    LET title == TrimSpace(record[1])
        artist == TrimSpace(record[2])
        bpm == ParseFloat(TrimSpace(record[3]))
        energy == Atoi(TrimSpace(record[4]))
        key == ParseKey(record[5])
    IN  IF ~bpm.ok THEN [track |-> ZeroTrack, err |-> "invalid bpm"]
        ELSE IF ~energy.ok THEN [track |-> ZeroTrack, err |-> "invalid energy"]
        ELSE IF energy.value < 0 \/ energy.value > 100
        THEN [track |-> ZeroTrack, err |-> "energy out of range"]
        ELSE IF key.err # "nil" THEN [track |-> ZeroTrack, err |-> key.err]
        ELSE [track |-> Track(title, artist, bpm.value, energy.value, key.key),
              err |-> "nil"]

\* What reader.Read yields: the fields of a record, or an error
Record(title, artist, bpm, energy, key) ==
    [fields |-> <<title, artist, bpm, energy, key>>, err |-> FALSE]

ReadError == [fields |-> <<>>, err |-> TRUE]

LoadRows ==
    { Record(<<"a">>, <<"x">>, <<"1", "2", "0">>, <<"5", "0">>, <<"1", "A">>),
      Record(<<"B", " ">>, <<"x">>, <<"1", "2", "1", ".", "5", " ">>, <<"6", "0", " ">>,
             <<"2", "b", " ">>),
      Record(<<"x">>, <<"a">>, <<"B">>, <<"x">>, <<"x">>),
      Record(<<"a">>, <<"x">>, <<"1", "2", "0">>, <<"5", "0">>, <<"1", "3", "A">>),
      Record(<<"a">>, <<"x">>, <<"1", "2", "0">>, <<"1", "0", "1">>, <<"1", "A">>),
      Record(<<"a">>, <<"x">>, <<"1", "2", "0">>, <<"-", "1">>, <<"1", "A">>),
      Record(<<"a">>, <<"x">>, <<"1", "2", "0">>, <<"5", "x">>, <<"1", "A">>),
      Record(<<"a">>, <<"x">>, <<"1", "2", "x">>, <<"5", "0">>, <<"1", "A">>),
      Record(<<"n">>, <<"x">>, <<"N", "a", "N">>, <<"5", "0">>, <<"1", "A">>),
      ReadError }

\* csv.Reader gives every record of a file the field count of the first
LoadWidths == {4, 5}

Narrow(rec, width) ==
    IF rec.err THEN rec ELSE [rec EXCEPT !.fields = SubSeq(@, 1, width)]

LoadFiles ==
    { [i \in 1..Len(f) |-> Narrow(f[i], w)] :
          f \in SeqsUpTo(LoadRows, MaxRows), w \in LoadWidths }

InitLoad ==
    /\ SortIdle
    /\ KeyIdle
    /\ CallIdle
    /\ records \in LoadFiles
    /\ line = 0
    /\ header = FALSE
    /\ loaded = <<>>
    /\ loadResult = NoLoadResult

\* Load, lines 34-38: the context is done
LoadCancelled ==
    /\ loadResult.err = "none"
    /\ cancelled
    /\ loadResult' = [tracks |-> <<>>, err |-> "context canceled"]
    /\ UNCHANGED <<records, line, header, loaded, sortVars, keyVars, callVars>>

\* Load, lines 40-44 and 73: the reader is at the end of the file
LoadEOF ==
    /\ loadResult.err = "none"
    /\ ~cancelled
    /\ line = Len(records)
    /\ loadResult' = [tracks |-> loaded, err |-> "nil"]
    /\ UNCHANGED <<records, line, header, loaded, sortVars, keyVars, callVars>>

\* Load, lines 40-70: one record is read
LoadRecord ==
    /\ loadResult.err = "none"
    /\ ~cancelled
    /\ line < Len(records)
    /\ LET rec == records[line + 1]
           record == rec.fields
           failed(msg) ==
               /\ loadResult' = [tracks |-> <<>>, err |-> msg]
               /\ UNCHANGED <<header, loaded>>
       IN  IF rec.err
           THEN failed("read line") /\ line' = line
           ELSE /\ line' = line + 1
                /\ IF Len(record) = 0
                   THEN UNCHANGED <<header, loaded, loadResult>>
                   ELSE IF Len(record) < 5
                   THEN failed("expected 5 columns")
                   ELSE IF line' = 1 /\ ~looksLikeData(record)
                   THEN /\ header' = TRUE
                        /\ UNCHANGED <<loaded, loadResult>>
                   ELSE LET parsed == parseRecord(record)
                        IN  IF parsed.err # "nil"
                            THEN failed(parsed.err)
                            ELSE /\ loaded' = Append(loaded, parsed.track)
                                 /\ UNCHANGED <<header, loadResult>>
    /\ UNCHANGED <<records, sortVars, keyVars, callVars>>

NextLoad == Cancel \/ LoadCancelled \/ LoadEOF \/ LoadRecord

SpecLoad == InitLoad /\ [][NextLoad]_vars

\* ------------------------------------- the planner's functions on their own
Keys == {Key(n, m) : n \in 1..12, m \in {ModeA, ModeB}}

\* A state after the track prev was accepted
StateAfter(prev) == [ZeroState EXCEPT !.prev = prev, !.prevSet = TRUE, !.tracksInCycle = 1]

CategorizeCalls ==
    { [fn |-> "categorizeTransition",
       state |-> StateAfter(Track("p", "x", 1240, 50, k1)),
       candidate |-> Track("c", "y", 1240, 50, k2)] : k1 \in Keys, k2 \in Keys }

OrderCalls ==
    { [fn |-> "categoryOrder", state |-> ZeroState] }
    \cup
    { [fn |-> "categoryOrder",
       state |-> [StateAfter(Track("p", "x", 1240, 50, Key(1, ModeA)))
                     EXCEPT !.stepsSinceStep1 = s1,
                            !.stepsSinceStep2 = s2,
                            !.stepsSinceLetterFlip = sf]] :
          s1 \in 0..MaxSteps, s2 \in 0..MaxSteps, sf \in 0..MaxSteps }

CycleCalls == { [fn |-> "idealCycleLength", total |-> n] : n \in 0..MaxTotal }

\* Candidates of the categories 0 and 1 whose scores lie 0.9e-6 apart
ScoredCandidates == [category : {0, 1}, score : {0, 9, 18}]

ChooseCalls ==
    { [fn |-> "chooseNextIndex",
       state |-> [StateAfter(Track("p", "x", 1240, 50, Key(1, ModeA)))
                     EXCEPT !.stepsSinceStep2 = s2],
       cands |-> cands,
       ws |-> ws] :
          s2 \in {0, varietyStepThreshold},
          cands \in SeqsUpTo(ScoredCandidates, MaxCands) \ {<<>>},
          ws \in [1..MaxCands -> {0, 1}] }

\* Two candidates whose BPM lies within MaxBpmDelta tenths of the previous
\* track's BPM, on either side of it
BpmCalls ==
    { [fn |-> "bpmTransitionCost",
       state |-> StateAfter(Track("p", "x", 1240, 50, Key(1, ModeA))),
       first |-> Track("a", "x", 1240 + d1, 50, Key(1, ModeA)),
       second |-> Track("b", "x", 1240 + d2, 50, Key(1, ModeA))] :
          d1 \in -MaxBpmDelta..MaxBpmDelta, d2 \in -MaxBpmDelta..MaxBpmDelta }

InitCall ==
    /\ SortIdle
    /\ KeyIdle
    /\ LoadIdle
    /\ callArgs \in CategorizeCalls \cup OrderCalls \cup CycleCalls \cup ChooseCalls \cup BpmCalls
    /\ callResult = NoCall

Called(fn) == callResult = NoCall /\ callArgs.fn = fn

CallCategorize ==
    /\ Called("categorizeTransition")
    /\ LET trans == computeTransition(callArgs.state, callArgs.candidate)
       IN  callResult' = [fn |-> callArgs.fn, trans |-> trans,
                          category |-> categorizeTransition(callArgs.state, trans)]
    /\ UNCHANGED <<callArgs, sortVars, keyVars, loadVars>>

CallCategoryOrder ==
    /\ Called("categoryOrder")
    /\ callResult' = [fn |-> callArgs.fn, order |-> categoryOrder(callArgs.state)]
    /\ UNCHANGED <<callArgs, sortVars, keyVars, loadVars>>

CallIdealCycleLength ==
    /\ Called("idealCycleLength")
    /\ callResult' = [fn |-> callArgs.fn, length |-> idealCycleLength(callArgs.total)]
    /\ UNCHANGED <<callArgs, sortVars, keyVars, loadVars>>

\* chooseNextIndex, lines 268-298, on scored candidates
CallChooseNext ==
    /\ Called("chooseNextIndex")
    /\ LET buckets ==
               ScoredBuckets(callArgs.cands, callArgs.ws, 1,
                             [buckets |-> [c \in 1..5 |-> NoChoice], used |-> 0]).buckets
       IN  callResult' = [fn |-> callArgs.fn, buckets |-> buckets,
                          idx |-> FirstSet(buckets, categoryOrder(callArgs.state))]
    /\ UNCHANGED <<callArgs, sortVars, keyVars, loadVars>>

CallBpmTransitionCost ==
    /\ Called("bpmTransitionCost")
    /\ callResult' =
           [fn |-> callArgs.fn,
            first |-> bpmTransitionCost(callArgs.state, callArgs.first,
                                        callArgs.state.stats),
            second |-> bpmTransitionCost(callArgs.state, callArgs.second,
                                         callArgs.state.stats)]
    /\ UNCHANGED <<callArgs, sortVars, keyVars, loadVars>>

NextCall ==
    \/ CallCategorize
    \/ CallCategoryOrder
    \/ CallIdealCycleLength
    \/ CallChooseNext
    \/ CallBpmTransitionCost

SpecCall == InitCall /\ [][NextCall]_vars

\* ------------------------------------------ advance along accepted tracks
\* Tracks between which every event of advance happens: a step of one, a step
\* of two, a mode flip, an energy drop of ten, a wrap
AdvanceTracks ==
    { Track("x1", "x", 1240, 50, Key(1, ModeA)),
      Track("x2", "x", 1240, 50, Key(2, ModeA)),
      Track("x3", "x", 1240, 40, Key(3, ModeA)),
      Track("x4", "x", 1240, 40, Key(3, ModeB)) }

\* The tracks accepted one after the other: up to three of any kind, then one
\* track over and over (a pool of equal tracks)
Playlists ==
    { prefix \o [i \in 1..MaxRun |-> x] :
          prefix \in SeqsUpTo(AdvanceTracks, 3) \ {<<>>}, x \in AdvanceTracks }

InitAdvance ==
    /\ KeyIdle
    /\ LoadIdle
    /\ tracks = <<>>
    /\ given = <<>>
    /\ limit = 0
    /\ ctx = Background
    /\ cancelled = FALSE
    /\ pc = "loop"
    /\ p = NoPlanner
    /\ result = NoResult
    /\ stream = <<>>
    /\ drawn = 0
    /\ call = 1
    /\ first = NoResult
    /\ callResult = NoCall
    /\ \E playlist \in Playlists :
          /\ callArgs = [fn |-> "advance", playlist |-> playlist]
          /\ state = initialState(NoPlanner, playlist[1])
          /\ ordered = <<playlist[1]>>

\* Sort, lines 80-83: the next track is accepted
Advance ==
    /\ callArgs.fn = "advance"
    /\ Len(ordered) < Len(callArgs.playlist)
    /\ LET next == callArgs.playlist[Len(ordered) + 1]
       IN  /\ state' = advance(state, next)
           /\ ordered' = Append(ordered, next)
    /\ UNCHANGED <<tracks, given, limit, ctx, cancelled, pc, p, result, stream, drawn,
                   call, first, auxVars>>

NextAdvance == Advance

SpecAdvance == InitAdvance /\ [][NextAdvance]_vars

\* -------------------------------------------------------------- claims
\* Forward distance on the wheel from a's key number to b's, in 0..11
KeyDistance(a, b) == (b.Key.Number - a.Key.Number) % 12

\* hasPreferredCandidate of the sorter's test
hasPreferredCandidate(prev, remaining) ==
    \E i \in 1..Len(remaining) :
        LET cand == remaining[i]
        IN  /\ ~(cand.Title = prev.Title /\ cand.Artist = prev.Artist)
            /\ \/ KeyDistance(prev, cand) = 0
               \/ KeyDistance(prev, cand) <= 3 /\ cand.Key.Mode = prev.Key.Mode

\* The pair steps back on the wheel, as computeTransition's wrap
Wraps(a, b) == b.Key.Number < a.Key.Number

\* A step of the loop that emits a track
Emits == pc = "loop" /\ Len(ordered') = Len(ordered) + 1

Succeeded == pc = "done" /\ result.err = "nil"

\* C1: a Sort that is not cancelled returns min(target, len(input)) tracks that
\* form a sub-multiset of the input; after every take the remaining pool and
\* the ordered output together are exactly the input multiset.
C1_OutputIsSubMultiset ==
    /\ (pc # "idle" /\ Len(given) > 1)
          => SeqToBag(p.remaining) (+) SeqToBag(ordered) = SeqToBag(given)
    /\ Succeeded
          => /\ Len(result.tracks)
                  = Min2(IF limit > 0 THEN limit ELSE Len(given), Len(given))
             /\ SeqToBag(result.tracks) \sqsubseteq SeqToBag(given)

C1_Witness ==
    /\ Succeeded
    /\ Len(given) = 3
    /\ given[1] = given[2]
    /\ limit = 2
    /\ Len(result.tracks) = 2

\* C2: with a seed passed to WithSeed, two Sort calls on the same input and
\* limit that both return tracks return the same sequence.
C2_SameSeedSameOutput ==
    (call = 2 /\ Succeeded /\ first.err = "nil" /\ seedFromContext(ctx).ok)
        => result.tracks = first.tracks

\* C3: when the emitted track is more than 3 key numbers ahead of the previous
\* one, no track of the pool at that step was at most 2 ahead in the same mode.
C3_LargeJumpOnlyWhenUnavoidable ==
    [][Emits =>
         LET prev == ordered[Len(ordered)]
             next == ordered'[Len(ordered')]
         IN  KeyDistance(prev, next) > 3
                => ~\E i \in 1..Len(p.remaining) :
                       /\ KeyDistance(prev, p.remaining[i]) <= 2
                       /\ p.remaining[i].Key.Mode = prev.Key.Mode]_vars

C3_Witness ==
    /\ Len(ordered) >= 2
    /\ KeyDistance(ordered[Len(ordered) - 1], ordered[Len(ordered)]) > 3
    /\ Len(p.remaining) > 0

\* C4: when the emitted track is more than 3 key numbers ahead of the previous
\* one, or changes mode while moving ahead, the pool at that step held no
\* preferred candidate (distance 0, or distance <= 3 in the same mode).
C4_NoPreferredCandidateSkipped ==
    [][Emits =>
         LET prev == ordered[Len(ordered)]
             next == ordered'[Len(ordered')]
         IN  (\/ KeyDistance(prev, next) > 3
              \/ KeyDistance(prev, next) > 0 /\ next.Key.Mode # prev.Key.Mode)
                => ~hasPreferredCandidate(prev, p.remaining)]_vars

\* C5: a step of Sort taken while the cancellation signal is set emits no
\* track, and when Sort returns from it, it returns the error and no tracks.
C5_CancelledReturnsNoTracks ==
    [][(cancelled /\ pc # "done")
          => /\ Len(ordered') = Len(ordered)
             /\ pc' = "done" => (result'.err # "nil" /\ result'.tracks = <<>>)]_vars

\* C6: an input of at most one track is returned as it is, without error.
C6_ShortInputReturned ==
    (pc = "done" /\ Len(given) <= 1)
        => (result.err = "nil" /\ result.tracks = given)

C6_Witness ==
    /\ pc = "done"
    /\ Len(given) = 1
    /\ cancelled
    /\ Len(result.tracks) = 1

\* C7: without a positive limit, or with a limit of at least the input length,
\* Sort returns a permutation of the whole input; a limit L with
\* 0 < L < len(input) yields L tracks; only cancellation makes Sort fail.
C7_LimitMeansEmitAll ==
    /\ Succeeded
          => IF limit <= 0 \/ limit >= Len(given)
             THEN SeqToBag(result.tracks) = SeqToBag(given)
             ELSE Len(result.tracks) = limit
    /\ (pc = "done" /\ ~cancelled) => result.err = "nil"

C7_Witness ==
    /\ Succeeded
    /\ limit = 0
    /\ Len(given) = 3
    /\ Len(result.tracks) = 3

\* C9: the caller's slice keeps its length, order and field values through
\* every step of Sort, and every returned track is one of the input's tracks.
C9_InputNotMutated ==
    /\ tracks = given
    /\ Succeeded => \A i \in 1..Len(result.tracks) : result.tracks[i] \in Range(given)

C9_Witness ==
    /\ Succeeded
    /\ Len(given) = 3
    /\ Len(result.tracks) = 3
    /\ result.tracks # given

\* The labels the claim accepts: a number 1..12 in decimal digits and then A
\* or B, after trimming and upper-casing
IsKeyLabel(label) ==
    LET cleaned == TrimSpace(ToUpper(label))
    IN  \E n \in 1..12, m \in {ModeA, ModeB} :
            cleaned = (IF n >= 10 THEN <<Digits[2], Digits[n - 9]>> ELSE <<Digits[n + 1]>>)
                      \o <<m>>

\* C10: ParseKey returns a key exactly for the labels that, trimmed and
\* upper-cased, are a number 1..12 followed by A or B; every other label gets
\* an error and the zero Key.
C10_ParseKeyAcceptsExactlyLabels ==
    keyResult.err # "none"
        => /\ (keyResult.err = "nil") <=> IsKeyLabel(keyInput)
           /\ keyResult.err # "nil" => keyResult.key = ZeroKey

\* C8: every output of at least ten tracks that contains a wheel wrap contains
\* an adjacent pair whose energy falls by at least 10.
C8_WrappedOutputHasEnergyReset ==
    (/\ Succeeded
     /\ Len(result.tracks) >= 10
     /\ \E i \in 1..(Len(result.tracks) - 1) :
            Wraps(result.tracks[i], result.tracks[i + 1]))
        => \E i \in 1..(Len(result.tracks) - 1) :
               result.tracks[i].Energy - result.tracks[i + 1].Energy >= energyDropThreshold

\* The record has the five columns and its BPM, energy and key columns parse
ColumnsParse(rec) ==
    /\ ~rec.err
    /\ Len(rec.fields) >= 5
    /\ ParseFloat(TrimSpace(rec.fields[3])).ok
    /\ Atoi(TrimSpace(rec.fields[4])).ok
    /\ ParseKey(rec.fields[5]).err = "nil"

\* The record is a well-formed track: it parses and its energy is in 0..100
WellFormed(rec) ==
    /\ ColumnsParse(rec)
    /\ Atoi(TrimSpace(rec.fields[4])).value \in 0..100

\* 1 when the file starts with a header row, else 0
HeaderRows ==
    IF /\ records # <<>>
       /\ ~records[1].err
       /\ Len(records[1].fields) >= 5
       /\ ~ColumnsParse(records[1])
    THEN 1 ELSE 0

ValidTrack(t) ==
    /\ t.Key.Number \in 1..12
    /\ t.Key.Mode \in {ModeA, ModeB}
    /\ t.Energy \in 0..100

C12_TransitionClassification ==
    callResult.fn = "categorizeTransition"
        => LET prev == callArgs.state.prev.Key
               cand == callArgs.candidate.Key
               d == (cand.Number - prev.Number) % 12
               mc == cand.Mode # prev.Mode
               c == callResult.category
           IN  /\ callResult.trans = [diff |-> d, wrap |-> cand.Number < prev.Number,
                                      modeChange |-> mc]
               /\ c \in 0..4
               /\ c = 0 <=> (d = 1 /\ ~mc)
               /\ c = 1 <=> (d = 2 /\ ~mc)
               /\ c = 2 <=> (d = 0 /\ ~mc)
               /\ c = 3 <=> (d = 0 /\ mc)
               /\ c = 4 <=> (d >= 3 \/ (mc /\ d > 0))

C12_Witness ==
    /\ callResult.fn = "categorizeTransition"
    /\ callResult.trans.wrap
    /\ callResult.trans.diff = 1
    /\ callResult.trans.modeChange
    /\ callResult.category = 4

\* Where category c stands in the order
PositionOf(order, c) == CHOOSE i \in 1..Len(order) : order[i] = c

\* C13: categoryOrder returns a permutation of 0..4 with 4 last; 1 comes before
\* 0 iff stepsSinceStep2 >= 2; 3 comes first iff stepsSinceLetterFlip >= 5.
C13_AdaptiveCategoryOrder ==
    callResult.fn = "categoryOrder"
        => LET order == callResult.order
               st == callArgs.state
           IN  /\ Len(order) = 5
               /\ Range(order) = 0..4
               /\ order[5] = 4
               /\ (PositionOf(order, 1) < PositionOf(order, 0)) <=> st.stepsSinceStep2 >= 2
               /\ order[1] = 3 <=> st.stepsSinceLetterFlip >= 5

C13_Witness ==
    /\ callResult.fn = "categoryOrder"
    /\ callArgs.state.stepsSinceLetterFlip >= 5
    /\ callArgs.state.stepsSinceStep2 >= 2
    /\ callArgs.state.stepsSinceStep1 = 0
    /\ callResult.order = <<3, 1, 0, 2, 4>>

\* round(a / b) for a >= 0 and b > 0, halves rounded up
Rounded(a, b) ==
    LET q == a \div b
    IN  IF 2 * (a - q * b) >= b THEN q + 1 ELSE q

\* C18: idealCycleLength(total) is 6 for total = 0, total for 1..6, and else
\* round(total / max(1, round(total / 8))) clamped to 6..10.
C18_DesiredCycleLength ==
    callResult.fn = "idealCycleLength"
        => LET total == callArgs.total
               cycles == IF Rounded(total, 8) < 1 THEN 1 ELSE Rounded(total, 8)
               raw == Rounded(total, cycles)
               clamped == IF raw < 6 THEN 6 ELSE IF raw > 10 THEN 10 ELSE raw
           IN  /\ callResult.length
                     = (IF total = 0 THEN 6 ELSE IF total <= 6 THEN total ELSE clamped)
               /\ total > 6 => callResult.length \in 6..10

C18_Witness ==
    /\ callResult.fn = "idealCycleLength"
    /\ callArgs.total = 11
    /\ callResult.length = 10

\* The planner as newMixPlanner builds it for the call
StartPlanner == newMixPlanner(ctx, given, TargetCount(ctx, given))

StartScores == {startScore(StartPlanner, given[i]) : i \in 1..Len(given)}

MinStartScore == CHOOSE m \in StartScores : \A x \in StartScores : m <= x

\* C14: the start track has a start score within 1.0 of the minimum over the
\* pool, and every track whose score is within 1.0 of the minimum is returned
\* for some word of the generator.
C14_StartWithinTolerance ==
    (pc # "idle" /\ Len(given) > 1)
        => /\ startScore(StartPlanner, ordered[1])
                 <= MinStartScore + startSelectionTolerance
           /\ \A i \in 1..Len(given) :
                 startScore(StartPlanner, given[i]) <= MinStartScore + startSelectionTolerance
                    => \E w \in Words : chooseStartIndex(StartPlanner, w) = i

\* Candidates i and j agree on the inventory of their key number, on energy and
\* on BPM; i's exact key is repeated in the pool and j's is not
OnlyKeyRepeated(i, j) ==
    LET a == given[i]
        b == given[j]
    IN  /\ MapGet(StartPlanner.countsByNumber, a.Key.Number)
             = MapGet(StartPlanner.countsByNumber, b.Key.Number)
        /\ a.Energy = b.Energy
        /\ a.BPM = b.BPM
        /\ MapGet(StartPlanner.countsByKey, a.Key) > 1
        /\ MapGet(StartPlanner.countsByKey, b.Key) = 1

\* C15 as stated: of two such candidates the one whose exact key is repeated
\* gets the higher (worse) start score.
C15_RepeatedKeyPenalised ==
    (pc # "idle" /\ Len(given) > 1)
        => \A i, j \in 1..Len(given) :
               OnlyKeyRepeated(i, j)
                  => startScore(StartPlanner, given[i]) > startScore(StartPlanner, given[j])

\* C15 amended: of two such candidates the one whose exact key is repeated gets
\* a start score lower (better) by exactly 1.0.
C15_RepeatedKeyFavoured ==
    (pc # "idle" /\ Len(given) > 1)
        => \A i, j \in 1..Len(given) :
               OnlyKeyRepeated(i, j)
                  => startScore(StartPlanner, given[i])
                        = startScore(StartPlanner, given[j]) - Scale

C15_Witness ==
    /\ pc = "done"
    /\ Len(given) = 3
    /\ OnlyKeyRepeated(1, 3)
    /\ ordered[1] = given[1]

\* The positions of the output whose track wrapped the wheel
WrapPositions == {i \in 2..Len(ordered) : Wraps(ordered[i - 1], ordered[i])}

\* The position where the current cycle started
CycleStart ==
    IF WrapPositions = {} THEN 1
    ELSE CHOOSE i \in WrapPositions : \A j \in WrapPositions : j <= i

\* C16: a wrap adds 1 to cycleIndex, sets tracksInCycle to 1 and
\* cycleStartEnergy to the accepted track's energy; any other accepted track
\* adds 1 to tracksInCycle only. So tracksInCycle >= 1, cycleIndex is the number
\* of wraps in the output so far, and tracksInCycle the number of tracks since
\* the last wrap.
C16_CycleBookkeeping ==
    /\ [](state.prevSet
            => /\ state.tracksInCycle >= 1
               /\ state.cycleIndex = Cardinality(WrapPositions)
               /\ state.tracksInCycle = Len(ordered) - CycleStart + 1
               /\ state.cycleStartEnergy = EnergyFx(ordered[CycleStart]))
    /\ [][(state.prevSet /\ Len(ordered') = Len(ordered) + 1)
             => IF Wraps(ordered[Len(ordered)], ordered'[Len(ordered')])
                THEN /\ state'.cycleIndex = state.cycleIndex + 1
                     /\ state'.tracksInCycle = 1
                     /\ state'.cycleStartEnergy = EnergyFx(ordered'[Len(ordered')])
                ELSE /\ state'.cycleIndex = state.cycleIndex
                     /\ state'.cycleStartEnergy = state.cycleStartEnergy
                     /\ state'.tracksInCycle = state.tracksInCycle + 1]_vars

C16_Witness ==
    /\ pc = "done"
    /\ Len(ordered) = 10
    /\ state.cycleIndex >= 1
    /\ state.tracksInCycle >= 3

\* The events of a transition from track a to track b
IsStep1(a, b) == KeyDistance(a, b) = 1
IsStep2(a, b) == KeyDistance(a, b) = 2
IsLetterFlip(a, b) == a.Key.Mode # b.Key.Mode
IsEnergyDrop(a, b) == a.Energy - b.Energy >= 10

\* The number of tracks accepted since the last transition with the event, or
\* since the start track
StepsSince(Event(_, _)) ==
    LET hits == {i \in 2..Len(ordered) : Event(ordered[i - 1], ordered[i])}
    IN  IF hits = {} THEN Len(ordered) - 1
        ELSE Len(ordered) - (CHOOSE i \in hits : \A j \in hits : j <= i)

\* C17: each steps-since counter is in 0..100 and equals min(100, tracks
\* accepted since the last transition with its event, or since the start).
C17_StepsSinceCounters ==
    state.prevSet
        => /\ state.stepsSinceStep1 = Min2(100, StepsSince(IsStep1))
           /\ state.stepsSinceStep2 = Min2(100, StepsSince(IsStep2))
           /\ state.stepsSinceLetterFlip = Min2(100, StepsSince(IsLetterFlip))
           /\ state.stepsSinceEnergyDrop = Min2(100, StepsSince(IsEnergyDrop))
           /\ \A c \in {state.stepsSinceStep1, state.stepsSinceStep2,
                        state.stepsSinceLetterFlip, state.stepsSinceEnergyDrop} :
                  c \in 0..100

C17_Witness ==
    /\ StepsSince(IsStep1) = 101
    /\ state.stepsSinceStep1 = 100
    /\ StepsSince(IsLetterFlip) = 102
    /\ state.stepsSinceLetterFlip = 100
    /\ StepsSince(IsStep2) > 102

\* The sum of the counts of a map
RECURSIVE MapSum(_)
MapSum(m) ==
    IF DOMAIN m = {} THEN 0
    ELSE LET k == CHOOSE x \in DOMAIN m : TRUE
         IN  m[k] + MapSum(MapDelete(m, k))

\* The planner q's maps count its pool exactly, without entries for what the
\* pool does not hold
InventoryExact(q) ==
    LET pool == q.remaining
        withKey(k) == {i \in 1..Len(pool) : pool[i].Key = k}
        withNumber(n) == {i \in 1..Len(pool) : pool[i].Key.Number = n}
    IN  /\ DOMAIN q.countsByKey = {pool[i].Key : i \in 1..Len(pool)}
        /\ DOMAIN q.countsByNumber = {pool[i].Key.Number : i \in 1..Len(pool)}
        /\ \A k \in DOMAIN q.countsByKey : q.countsByKey[k] = Cardinality(withKey(k))
        /\ \A n \in DOMAIN q.countsByNumber :
              q.countsByNumber[n] = Cardinality(withNumber(n))
        /\ MapSum(q.countsByKey) = Len(pool)
        /\ MapSum(q.countsByNumber) = Len(pool)

\* C19: after construction and after every take, countsByKey and countsByNumber
\* hold for each key and number the number of remaining tracks with it, hold no
\* entry for a key or number without remaining track, and both sum to
\* len(remaining).
C19_InventoryInvariant ==
    (pc # "idle" /\ Len(given) > 1)
        => /\ InventoryExact(StartPlanner)
           /\ InventoryExact(p)

C19_Witness ==
    /\ pc = "loop"
    /\ Len(given) = 3
    /\ Len(p.remaining) = 1
    /\ given[1].Key = given[2].Key
    /\ given[3].Key.Number = given[1].Key.Number
    /\ given[3].Key # given[1].Key

\* C20: for every category with a candidate, the candidate chooseNextIndex
\* records for it scores within 1e-6 of the lowest score of the category's
\* candidates; the index returned is the one recorded for the first category of
\* categoryOrder that has a candidate.
C20_PerCategoryWinner ==
    callResult.fn = "chooseNextIndex"
        => LET cands == callArgs.cands
               buckets == callResult.buckets
               order == categoryOrder(callArgs.state)
               inCategory(c) == {i \in 1..Len(cands) : cands[i].category = c}
               filled == {k \in 1..Len(order) : inCategory(order[k]) # {}}
               firstFilled == CHOOSE k \in filled : \A j \in filled : k <= j
           IN  /\ \A c \in 0..4 :
                     inCategory(c) # {}
                        => /\ buckets[c + 1].set
                           /\ buckets[c + 1].idx \in inCategory(c)
                           /\ \A i \in inCategory(c) :
                                 cands[buckets[c + 1].idx].score
                                    <= cands[i].score + scoreTolerance
               /\ callResult.idx = buckets[order[firstFilled] + 1].idx

\* C21: for a previous track and two candidates whose absolute BPM deltas are
\* d1 <= d2, bpmTransitionCost of the first is at most bpmTransitionCost of the
\* second.
C21_BpmCostMonotone ==
    callResult.fn = "bpmTransitionCost"
        => (Abs(callArgs.first.BPM - callArgs.state.prev.BPM)
                <= Abs(callArgs.second.BPM - callArgs.state.prev.BPM)
              => callResult.first <= callResult.second)

\* C22: whenever chooseStartIndex is called its candidate list is non-empty,
\* and whenever chooseNextIndex is called the pool is non-empty, every candidate
\* falls into one of the five categories, and the index returned is the one
\* recorded in a set bucket; every index handed to take is an index of the pool.
C22_FallbackUnreachable ==
    /\ (pc = "idle" /\ Len(tracks) > 1)
          => LET planner == newMixPlanner(ctx, tracks, TargetCount(ctx, tracks))
                 candidates ==
                     StartCandidates(planner, 1,
                         [inf |-> TRUE, bestScore |-> 0, candidates |-> <<>>])
             IN  /\ Len(candidates) > 0
                 /\ \A w \in Words :
                       chooseStartIndex(planner, w) \in 1..Len(planner.remaining)
    /\ (pc = "loop" /\ ~cancelled)
          => /\ Len(p.remaining) > 0
             /\ \A i \in 1..Len(p.remaining) :
                   categorizeTransition(state,
                       computeTransition(state, p.remaining[i])) \in 0..4
             /\ \A ws \in [1..FlipCount(p, state) -> {0, 1}] :
                   LET buckets == Buckets(p, state, ws).buckets
                       idx == chooseNextIndex(p, state, ws)
                   IN  /\ \E c \in 1..5 : buckets[c].set /\ buckets[c].idx = idx
                       /\ idx \in 1..Len(p.remaining)

============================================================================
